---- MODULE Spec2Model ----
(***************************************************************************)
(* The random access machine of Ram.py: the self-expanding Register, the   *)
(* operand decoder of Command, the nine commands, CommandHandler.execute   *)
(* and the fetch-execute loop Ram.run.                                      *)
(*                                                                         *)
(* The register list is a sequence (Python index i is element i + 1).      *)
(* An operand token is [mark, num, isnum]: mark is its first character     *)
(* when that is "#" or "*" (and "" otherwise), num the numeral int() reads *)
(* from the rest, isnum whether int() accepts it (FALSE for a word such as *)
(* the "END" of "12 END END").  Every function that can raise returns the  *)
(* exception's name in exc ("none" when it returns normally) next to the   *)
(* register list as the call left it.                                      *)
(***************************************************************************)
EXTENDS Integers, Sequences, FiniteSets, TLC

VARIABLES register, pc, prog, runState, exc, result, last, written

vars == <<register, pc, prog, runState, exc, result, last, written>>

(* ------------------------------ bounds -------------------------------- *)
MaxNum == 2        \* numerals of operands and register values: -1 .. MaxNum
MaxLen == 3        \* longest register list a test starts from
MaxPc == 2         \* program counters a handler test starts from: 1 .. MaxPc
MaxProgLen == 2    \* longest program drawn from RunCmds
MaxR1 == 3         \* the example program runs on [0, a, b], a in 0 .. MaxR1
MaxR2 == 6         \*                                        b in 0 .. MaxR2
MaxRunVal == 30    \* a run never stores a value beyond +-MaxRunVal

(* --------------------------- Register --------------------------------- *)

\* The one element of a one-element set.  A local of the code is written
\* Only({body : x \in {value}}): x is bound to the value, computed once.
Only(S) == CHOOSE x \in S : TRUE

\* list[i] of Python: the 1-based position i denotes in a list of length n,
\* counting from the end when i < 0; 0 when Python raises IndexError.
PyIndex(n, i) ==
  IF i >= 0 THEN (IF i < n THEN i + 1 ELSE 0)
  ELSE (IF -i <= n THEN n + i + 1 ELSE 0)

append(reg, value) == Append(reg, value)

RECURSIVE expandLoop(_, _)
expandLoop(reg, delta) ==
  IF delta > 0 THEN expandLoop(append(reg, 0), delta - 1) ELSE reg

\* expand appending one register too many.
expandOneMore(reg, toAddress) == expandLoop(reg, 2 + toAddress - Len(reg))

expand(reg, toAddress) == expandLoop(reg, 1 + toAddress - Len(reg))

\* setAddress filling the gap with the value instead of 0.
RECURSIVE fillLoop(_, _, _)
fillLoop(reg, delta, value) ==
  IF delta > 0 THEN fillLoop(append(reg, value), delta - 1, value) ELSE reg

setAddressFills(reg, address, value) ==
  Only({ IF PyIndex(Len(r), address) = 0
         THEN [reg |-> r, exc |-> "IndexError"]
         ELSE [reg |-> [r EXCEPT ![PyIndex(Len(r), address)] = value],
               exc |-> "none"]
       : r \in {IF address >= Len(reg)
                THEN fillLoop(reg, 1 + address - Len(reg), value)
                ELSE reg} })

setAddress(reg, address, value) ==
  Only({ IF PyIndex(Len(r), address) = 0
         THEN [reg |-> r, exc |-> "IndexError"]
         ELSE [reg |-> [r EXCEPT ![PyIndex(Len(r), address)] = value],
               exc |-> "none"]
       : r \in {IF address >= Len(reg) THEN expand(reg, address) ELSE reg} })

getAddress(reg, address) ==
  Only({ IF PyIndex(Len(r), address) = 0
         THEN [reg |-> r, val |-> 0, exc |-> "IndexError"]
         ELSE [reg |-> r, val |-> r[PyIndex(Len(r), address)], exc |-> "none"]
       : r \in {IF address >= Len(reg) THEN expand(reg, address) ELSE reg} })

\* setAccumulator taking register 1 for the accumulator.
setAccumulatorAtOne(reg, value) == setAddress(reg, 1, value)

setAccumulator(reg, value) == setAddress(reg, 0, value)

getAccumulator(reg) == getAddress(reg, 0)

incrementPc(p) == p + 1

(* ---------------------------- Command --------------------------------- *)

\* int (s): the numeral, or ValueError when s is no numeral.  A token that
\* still carries its "#" or "*" is no numeral either.
int(oper, stripped) ==
  IF oper.isnum /\ (stripped \/ oper.mark = "")
  THEN [val |-> oper.num, exc |-> "none"]
  ELSE [val |-> 0, exc |-> "ValueError"]

\* decoper reading *k as k: one register read instead of two.
decoperOnce(reg, oper) ==
  IF oper.mark = "#" THEN
    [reg |-> reg, val |-> int(oper, TRUE).val, exc |-> int(oper, TRUE).exc]
  ELSE IF int(oper, oper.mark = "*").exc # "none"
  THEN [reg |-> reg, val |-> 0, exc |-> int(oper, oper.mark = "*").exc]
  ELSE getAddress(reg, int(oper, oper.mark = "*").val)

decoper(reg, oper) ==
  IF oper.mark = "*" THEN
    IF int(oper, TRUE).exc # "none"
    THEN [reg |-> reg, val |-> 0, exc |-> int(oper, TRUE).exc]
    ELSE Only({ IF inner.exc # "none" THEN inner
                ELSE getAddress(inner.reg, inner.val)
              : inner \in {getAddress(reg, int(oper, TRUE).val)} })
  ELSE IF oper.mark = "#" THEN
    [reg |-> reg, val |-> int(oper, TRUE).val, exc |-> int(oper, TRUE).exc]
  ELSE
    IF int(oper, FALSE).exc # "none"
    THEN [reg |-> reg, val |-> 0, exc |-> int(oper, FALSE).exc]
    ELSE getAddress(reg, int(oper, FALSE).val)

regindex(reg, oper) ==
  IF oper.mark = "*" THEN
    IF int(oper, TRUE).exc # "none"
    THEN [reg |-> reg, val |-> 0, exc |-> int(oper, TRUE).exc]
    ELSE getAddress(reg, int(oper, TRUE).val)
  ELSE
    [reg |-> reg, val |-> int(oper, FALSE).val, exc |-> int(oper, FALSE).exc]

\* What a command's execute leaves behind: the register list, the program
\* counter and the exception it raised.
Done(reg, p) == [reg |-> reg, pc |-> p, exc |-> "none"]
Raise(reg, p, e) == [reg |-> reg, pc |-> p, exc |-> e]

\* Python 2's / on two ints: the floor of the quotient.
FloorDiv(a, b) == IF b > 0 THEN a \div b ELSE (-a) \div (-b)

CommandLoad(reg, p, oper) ==
  Only({ IF d.exc # "none" THEN Raise(d.reg, p, d.exc)
         ELSE Done(setAccumulator(d.reg, d.val).reg, incrementPc(p))
       : d \in {decoper(reg, oper)} })

\* The tail of STORE once the address a is decoded: read the accumulator,
\* write it to the address, step the program counter.
StoreAt(a, p) ==
  Only({ Only({ IF s.exc # "none" THEN Raise(s.reg, p, s.exc)
                ELSE Done(s.reg, incrementPc(p))
              : s \in {setAddress(acc.reg, a.val, acc.val)} })
       : acc \in {getAccumulator(a.reg)} })

\* STORE writing to the operand's value instead of its address.
StoreToValue(reg, p, oper) ==
  IF oper.mark = "#" THEN Raise(reg, p, "StoreConstant")
  ELSE Only({ IF a.exc # "none" THEN Raise(a.reg, p, a.exc)
              ELSE IF a.val = 0 THEN Raise(a.reg, p, "StoreAddressZero")
              ELSE StoreAt(a, p)
            : a \in {decoper(reg, oper)} })

\* STORE without the check of address 0.
StoreAnyAddress(reg, p, oper) ==
  IF oper.mark = "#" THEN Raise(reg, p, "StoreConstant")
  ELSE Only({ IF a.exc # "none" THEN Raise(a.reg, p, a.exc)
              ELSE StoreAt(a, p)
            : a \in {regindex(reg, oper)} })

CommandStore(reg, p, oper) ==
  IF oper.mark = "#" THEN Raise(reg, p, "StoreConstant")
  ELSE Only({ IF a.exc # "none" THEN Raise(a.reg, p, a.exc)
              ELSE IF a.val = 0 THEN Raise(a.reg, p, "StoreAddressZero")
              ELSE StoreAt(a, p)
            : a \in {regindex(reg, oper)} })

\* ADD adding the operand's address instead of its value.
AddOfAddress(reg, p, oper) ==
  Only({ Only({ IF d.exc # "none" THEN Raise(d.reg, p, d.exc)
                ELSE Done(setAccumulator(d.reg, acc.val + d.val).reg,
                          incrementPc(p))
              : d \in {regindex(acc.reg, oper)} })
       : acc \in {getAccumulator(reg)} })

CommandAdd(reg, p, oper) ==
  Only({ Only({ IF d.exc # "none" THEN Raise(d.reg, p, d.exc)
                ELSE Done(setAccumulator(d.reg, acc.val + d.val).reg,
                          incrementPc(p))
              : d \in {decoper(acc.reg, oper)} })
       : acc \in {getAccumulator(reg)} })

\* SUB without the floor at 0.
SubPlain(reg, p, oper) ==
  Only({ IF d.exc # "none" THEN Raise(d.reg, p, d.exc)
         ELSE Only({ Done(setAccumulator(acc.reg, acc.val - d.val).reg,
                          incrementPc(p))
                   : acc \in {getAccumulator(d.reg)} })
       : d \in {decoper(reg, oper)} })

\* The else branch of SUB: the accumulator and the operand are read again.
SubDifference(reg, p, oper) ==
  Only({ Only({ IF d2.exc # "none" THEN Raise(d2.reg, p, d2.exc)
                ELSE Done(setAccumulator(d2.reg, a2.val - d2.val).reg,
                          incrementPc(p))
              : d2 \in {decoper(a2.reg, oper)} })
       : a2 \in {getAccumulator(reg)} })

CommandSub(reg, p, oper) ==
  Only({ IF d1.exc # "none" THEN Raise(d1.reg, p, d1.exc)
         ELSE Only({ IF d1.val > a1.val
                     THEN Done(setAccumulator(a1.reg, 0).reg, incrementPc(p))
                     ELSE SubDifference(a1.reg, p, oper)
                   : a1 \in {getAccumulator(d1.reg)} })
       : d1 \in {decoper(reg, oper)} })

\* MULT left with the + of the ADD it was copied from.
MultAdds(reg, p, oper) ==
  Only({ Only({ IF d.exc # "none" THEN Raise(d.reg, p, d.exc)
                ELSE Done(setAccumulator(d.reg, acc.val + d.val).reg,
                          incrementPc(p))
              : d \in {decoper(acc.reg, oper)} })
       : acc \in {getAccumulator(reg)} })

CommandMult(reg, p, oper) ==
  Only({ Only({ IF d.exc # "none" THEN Raise(d.reg, p, d.exc)
                ELSE Done(setAccumulator(d.reg, acc.val * d.val).reg,
                          incrementPc(p))
              : d \in {decoper(acc.reg, oper)} })
       : acc \in {getAccumulator(reg)} })

\* DIV answering a zero divisor with 0 instead of an exception.
DivZeroIsZero(reg, p, oper) ==
  Only({ IF d1.exc # "none" THEN Raise(d1.reg, p, d1.exc)
         ELSE IF d1.val = 0
         THEN Done(setAccumulator(d1.reg, 0).reg, incrementPc(p))
         ELSE Only({ Done(setAccumulator(acc.reg,
                                         FloorDiv(acc.val, d1.val)).reg,
                          incrementPc(p))
                   : acc \in {getAccumulator(d1.reg)} })
       : d1 \in {decoper(reg, oper)} })

\* The quotient of DIV: the accumulator, then the operand once more.
DivQuotient(reg, p, oper) ==
  Only({ Only({ IF d2.exc # "none" THEN Raise(d2.reg, p, d2.exc)
                ELSE Done(setAccumulator(d2.reg,
                                         FloorDiv(acc.val, d2.val)).reg,
                          incrementPc(p))
              : d2 \in {decoper(acc.reg, oper)} })
       : acc \in {getAccumulator(reg)} })

\* DIV rounding its quotient toward zero.
DivTruncates(reg, p, oper) ==
  Only({ IF d1.exc # "none" THEN Raise(d1.reg, p, d1.exc)
         ELSE IF d1.val = 0 THEN Raise(d1.reg, p, "DivisionByZero")
         ELSE Only({ Done(setAccumulator(acc.reg,
                            IF (acc.val < 0) = (d1.val < 0)
                            THEN FloorDiv(acc.val, d1.val)
                            ELSE -FloorDiv(-acc.val, d1.val)).reg,
                          incrementPc(p))
                   : acc \in {getAccumulator(d1.reg)} })
       : d1 \in {decoper(reg, oper)} })

CommandDiv(reg, p, oper) ==
  Only({ IF d1.exc # "none" THEN Raise(d1.reg, p, d1.exc)
         ELSE IF d1.val = 0 THEN Raise(d1.reg, p, "DivisionByZero")
         ELSE DivQuotient(d1.reg, p, oper)
       : d1 \in {decoper(reg, oper)} })

\* GOTO rejecting "#" only and jumping through a register for "*".
GotoIndirect(reg, p, oper) ==
  IF oper.mark = "#" THEN Raise(reg, p, "GotoIllegalOperand")
  ELSE Only({ IF k.exc # "none" THEN Raise(k.reg, p, k.exc)
              ELSE Done(k.reg, k.val)
            : k \in {regindex(reg, oper)} })

CommandGoto(reg, p, oper) ==
  IF oper.mark = "#" \/ oper.mark = "*" THEN Raise(reg, p, "GotoIllegalOperand")
  ELSE IF int(oper, FALSE).exc # "none"
  THEN Raise(reg, p, int(oper, FALSE).exc)
  ELSE Done(reg, int(oper, FALSE).val)

\* JZERO with the test inverted.
JzeroInverted(reg, p, oper) ==
  IF oper.mark = "#" \/ oper.mark = "*" THEN Raise(reg, p, "JzeroIllegalOperand")
  ELSE Only({ IF acc.val # 0
              THEN (IF int(oper, FALSE).exc # "none"
                    THEN Raise(acc.reg, p, int(oper, FALSE).exc)
                    ELSE Done(acc.reg, int(oper, FALSE).val))
              ELSE Done(acc.reg, incrementPc(p))
            : acc \in {getAccumulator(reg)} })

\* JZERO stepping the program counter before it looks at its operand.
JzeroStepsFirst(reg, p, oper) ==
  IF oper.mark = "#" \/ oper.mark = "*"
  THEN Raise(reg, incrementPc(p), "JzeroIllegalOperand")
  ELSE Only({ IF acc.val = 0
              THEN (IF int(oper, FALSE).exc # "none"
                    THEN Raise(acc.reg, p, int(oper, FALSE).exc)
                    ELSE Done(acc.reg, int(oper, FALSE).val))
              ELSE Done(acc.reg, incrementPc(p))
            : acc \in {getAccumulator(reg)} })

CommandJzero(reg, p, oper) ==
  IF oper.mark = "#" \/ oper.mark = "*" THEN Raise(reg, p, "JzeroIllegalOperand")
  ELSE Only({ IF acc.val = 0
              THEN (IF int(oper, FALSE).exc # "none"
                    THEN Raise(acc.reg, p, int(oper, FALSE).exc)
                    ELSE Done(acc.reg, int(oper, FALSE).val))
              ELSE Done(acc.reg, incrementPc(p))
            : acc \in {getAccumulator(reg)} })

\* END stepping the program counter like every other command.
EndSteps(reg, p, oper) == Done(reg, incrementPc(p))

CommandEnd(reg, p, oper) == Done(reg, 0)

(* ------------------------- CommandHandler ----------------------------- *)

commands == {"LOAD", "STORE", "ADD", "SUB", "MULT", "DIV", "JZERO", "GOTO", "END"}

\* CommandHandler.execute: the lookup's KeyError is caught and answered with
\* a printed line; every other exception leaves the handler.
execute(reg, p, cmd) ==
  IF cmd[1] \notin commands THEN Done(reg, p)
  ELSE IF cmd[1] = "LOAD" THEN CommandLoad(reg, p, cmd[2])
  ELSE IF cmd[1] = "STORE" THEN CommandStore(reg, p, cmd[2])
  ELSE IF cmd[1] = "ADD" THEN CommandAdd(reg, p, cmd[2])
  ELSE IF cmd[1] = "SUB" THEN CommandSub(reg, p, cmd[2])
  ELSE IF cmd[1] = "MULT" THEN CommandMult(reg, p, cmd[2])
  ELSE IF cmd[1] = "DIV" THEN CommandDiv(reg, p, cmd[2])
  ELSE IF cmd[1] = "JZERO" THEN CommandJzero(reg, p, cmd[2])
  ELSE IF cmd[1] = "GOTO" THEN CommandGoto(reg, p, cmd[2])
  ELSE CommandEnd(reg, p, cmd[2])

(* ------------------------------ inputs -------------------------------- *)

Nums == (-1) .. MaxNum

Oper(mark, num) == [mark |-> mark, num |-> num, isnum |-> TRUE]

\* An operand that is a word, as the second "END" of "12 END END".
Word == [mark |-> "", num |-> 0, isnum |-> FALSE]

Opers == {Oper(m, k) : m \in {"", "#", "*"}, k \in Nums} \cup {Word}

\* Every command a test hands to the handler; NOP is in no table.
Cmds == (commands \cup {"NOP"}) \X Opers

\* The register lists a handler test starts from.
Stores == UNION {[1 .. n -> Nums] : n \in 0 .. MaxLen}

NoCmd == <<"", Word>>

\* The last call: what was called, with which command or address, on which
\* register list and program counter, and the value a read returned.
Call(act, cmd, reg, p, addr, val) ==
  [act |-> act, cmd |-> cmd, reg |-> reg, pc |-> p, addr |-> addr, val |-> val]

NoCall == Call("init", NoCmd, <<>>, 0, 0, 0)

(* ------------------------------ Ram.run ------------------------------- *)

\* Line 0 of every program, written by readprog.
ProgLine0 == <<"PROG", Oper("", 0)>>

\* The program at the bottom of Ram.py.
ExampleProg ==
  << ProgLine0,
     <<"LOAD", Oper("#", 0)>>,
     <<"STORE", Oper("", 3)>>,
     <<"LOAD", Oper("", 1)>>,
     <<"JZERO", Oper("", 11)>>,
     <<"SUB", Oper("#", 1)>>,
     <<"STORE", Oper("", 1)>>,
     <<"LOAD", Oper("", 2)>>,
     <<"ADD", Oper("", 3)>>,
     <<"STORE", Oper("", 3)>>,
     <<"GOTO", Oper("", 3)>>,
     <<"LOAD", Oper("", 3)>>,
     <<"END", Word>> >>

\* REGINIT 0 a b
ExampleInits == {<<0, a, b>> : a \in 0 .. MaxR1, b \in 0 .. MaxR2}

\* The commands the other programs are written in.
RunCmds ==
  { <<"NOP", Oper("", 0)>>,
    <<"END", Word>>,
    <<"LOAD", Oper("#", 1)>>,
    <<"LOAD", Oper("#", -1)>>,
    <<"ADD", Oper("", 2)>>,
    <<"SUB", Oper("#", 1)>>,
    <<"STORE", Oper("", 1)>>,
    <<"STORE", Oper("#", 1)>>,
    <<"DIV", Oper("#", 0)>>,
    <<"DIV", Oper("", 1)>>,
    <<"DIV", Oper("*", 2)>>,
    <<"DIV", Oper("", 2)>>,
    <<"GOTO", Oper("", 1)>>,
    <<"GOTO", Oper("", -1)>>,
    <<"GOTO", Oper("", -3)>>,
    <<"GOTO", Oper("", 5)>>,
    <<"JZERO", Oper("", 0)>> }

SmallProgs ==
  {<<ProgLine0, cmd>> : cmd \in Cmds} \cup
  UNION { {<<ProgLine0>> \o body : body \in [1 .. n -> RunCmds]} :
          n \in 1 .. MaxProgLen }

SmallInits == {<<>>, <<0, 0, 2>>, <<4, 1, 0>>}

InRunBounds(reg) ==
  \A i \in 1 .. Len(reg) : reg[i] >= -MaxRunVal /\ reg[i] <= MaxRunVal

\* Ram (filename): readprog has filled the program and the registers.
Init ==
  /\ \/ prog = ExampleProg /\ register \in ExampleInits
     \/ prog \in SmallProgs /\ register \in SmallInits
  /\ pc = 1
  /\ runState = "running"
  /\ exc = "none"
  /\ result = <<>>
  /\ last = NoCall
  /\ written = {}

\* One turn of the loop whose fetch raises IndexError.
FetchFault ==
  /\ runState = "running"
  /\ pc # 0
  /\ PyIndex(Len(prog), pc) = 0
  /\ runState' = "raised"
  /\ exc' = "AbnormalTermination"
  /\ last' = Call("fetchfault", NoCmd, register, pc, 0, 0)
  /\ UNCHANGED <<register, pc, prog, result, written>>

\* One turn of the loop that fetches prog[pc] and hands it to the handler.
Cycle ==
  /\ runState = "running"
  /\ pc # 0
  /\ PyIndex(Len(prog), pc) # 0
  /\ \E cmd \in {prog[PyIndex(Len(prog), pc)]} :
       \E r \in {execute(register, pc, cmd)} :
         /\ InRunBounds(r.reg)
         /\ register' = r.reg
         /\ pc' = r.pc
         /\ exc' = r.exc
         /\ runState' = IF r.exc = "none" THEN "running" ELSE "raised"
         /\ last' = Call("cycle", cmd, register, pc, 0, 0)
  /\ UNCHANGED <<prog, result, written>>

\* run printing the accumulator whatever the program counter is.
FinishAnyPc ==
  /\ runState = "running"
  /\ \E acc \in {getAccumulator(register)} :
       /\ register' = acc.reg
       /\ result' = <<acc.val>>
  /\ runState' = "returned"
  /\ last' = Call("finish", NoCmd, register, pc, 0, 0)
  /\ UNCHANGED <<pc, prog, exc, written>>

\* The loop ends on pc = 0 and run prints the accumulator.
Finish ==
  /\ runState = "running"
  /\ pc = 0
  /\ \E acc \in {getAccumulator(register)} :
       /\ register' = acc.reg
       /\ result' = <<acc.val>>
  /\ runState' = "returned"
  /\ last' = Call("finish", NoCmd, register, pc, 0, 0)
  /\ UNCHANGED <<pc, prog, exc, written>>

Next == FetchFault \/ Cycle \/ Finish

Spec == Init /\ [][Next]_vars

\* run is a plain loop: while it can take a turn, it does.
FairSpec == Spec /\ WF_vars(Next)

(* ---------------------- handler tests (TestCommands) ------------------ *)

InitHandler ==
  /\ register \in Stores
  /\ pc \in 1 .. MaxPc
  /\ prog = <<>>
  /\ runState = "idle"
  /\ exc = "none"
  /\ result = <<>>
  /\ last = NoCall
  /\ written = {}

\* self.handler.execute (cmd)
HandlerExecute ==
  /\ runState = "idle"
  /\ last.act = "init"
  /\ \E cmd \in Cmds :
       \E r \in {execute(register, pc, cmd)} :
           /\ register' = r.reg
           /\ pc' = r.pc
           /\ exc' = r.exc
           /\ last' = Call("execute", cmd, register, pc, 0, 0)
  /\ UNCHANGED <<prog, runState, result, written>>

NextHandler == HandlerExecute

SpecHandler == InitHandler /\ [][NextHandler]_vars

(* ---------------------- register tests (TestRegister) ----------------- *)

\* written is the test's own record: the pairs <<address, value last written>>.
InitRegister ==
  /\ register = <<>>
  /\ pc = 1
  /\ prog = <<>>
  /\ runState = "idle"
  /\ exc = "none"
  /\ result = <<>>
  /\ last = NoCall
  /\ written = {}

Addrs == 0 .. MaxNum

Put(w, k, v) == {e \in w : e[1] # k} \cup {<<k, v>>}

\* self.reg.setAddress (k, v)
TestSetAddress ==
  /\ runState = "idle"
  /\ \E k \in Addrs, v \in Nums :
       \E s \in {setAddress(register, k, v)} :
           /\ register' = s.reg
           /\ exc' = s.exc
           /\ written' = Put(written, k, v)
           /\ last' = Call("set", NoCmd, register, pc, k, v)
  /\ UNCHANGED <<pc, prog, runState, result>>

\* self.reg.getAddress (k)
TestGetAddress ==
  /\ runState = "idle"
  /\ \E k \in Addrs :
       \E g \in {getAddress(register, k)} :
           /\ register' = g.reg
           /\ exc' = g.exc
           /\ last' = Call("get", NoCmd, register, pc, k, g.val)
  /\ UNCHANGED <<pc, prog, runState, result, written>>

NextRegister == TestSetAddress \/ TestGetAddress

SpecRegister == InitRegister /\ [][NextRegister]_vars

(* ------------------------------ properties ---------------------------- *)

Max(a, b) == IF a >= b THEN a ELSE b

\* The value read at address a >= 0 of a register list: what is stored
\* there, and 0 where nothing is materialized yet.
ReadAt(reg, a) == IF a < Len(reg) THEN reg[a + 1] ELSE 0

Acc(reg) == ReadAt(reg, 0)

\* The addresses on which two register lists can differ.
Touched(r1, r2) == 0 .. Max(Len(r1), Len(r2))

SameReads(r1, r2) == \A a \in Touched(r1, r2) : ReadAt(r1, a) = ReadAt(r2, a)

\* The last step handed a command with opcode op to the handler.
Executed(op) == last.act \in {"execute", "cycle"} /\ last.cmd[1] = op

Operand == last.cmd[2]

\* An operand whose numeral, and whose register's value where that value is
\* used as an address, is an address of the register store: 0 or more.
Addressable(reg, oper) ==
  /\ oper.isnum
  /\ \/ oper.mark = "#"
     \/ oper.mark = "" /\ oper.num >= 0
     \/ oper.mark = "*" /\ oper.num >= 0 /\ ReadAt(reg, oper.num) >= 0

\* The value an operand denotes: #k is k, k is the value at register k,
\* *k is the value at the register whose address is the value at register k.
ValueOf(reg, oper) ==
  IF oper.mark = "#" THEN oper.num
  ELSE IF oper.mark = "" THEN ReadAt(reg, oper.num)
  ELSE ReadAt(reg, ReadAt(reg, oper.num))

\* The address an operand denotes: k is k, *k is the value at register k.
AddressOf(reg, oper) ==
  IF oper.mark = "" THEN oper.num ELSE ReadAt(reg, oper.num)

\* A direct or indirect operand that denotes an address of the store.
HasAddress(reg, oper) ==
  oper.isnum /\ oper.mark \in {"", "*"} /\ oper.num >= 0

\* C1: whenever the fetched instruction's opcode is none of the nine
\* mnemonics, the run ends in Faulted: it neither skips the instruction nor
\* keeps running.
C1_UnknownOpcodeFaults ==
  (last.act = "cycle" /\ last.cmd[1] \notin commands) => runState = "raised"

\* C2: from every PC that is not 0 and is no index of the program table
\* (above the last index or below 0) the next cycle ends in Faulted with the
\* abnormal-termination error and dispatches no instruction.
C2_PcOutsideProgramFaults ==
  ( /\ last.act \in {"cycle", "fetchfault"}
    /\ last.pc # 0
    /\ (last.pc < 0 \/ last.pc >= Len(prog)) )
  => (last.act = "fetchfault" /\ runState = "raised"
      /\ exc = "AbnormalTermination")

\* C3: for every accumulator value a and every operand of value v, SUB
\* leaves the accumulator at max(0, a - v), never negative, and the PC at
\* PC + 1.
C3_SubSaturates ==
  (Executed("SUB") /\ Addressable(last.reg, Operand))
  => LET v == ValueOf(last.reg, Operand)
         a == Acc(last.reg)
     IN  /\ exc = "none"
         /\ Acc(register) = Max(0, a - v)
         /\ Acc(register) >= 0
         /\ (v > a => Acc(register) = 0)
         /\ pc = last.pc + 1

C3_Witness ==
  /\ Executed("SUB")
  /\ Operand.mark = "*"
  /\ Addressable(last.reg, Operand)
  /\ Acc(last.reg) > 0
  /\ ValueOf(last.reg, Operand) > Acc(last.reg)
  /\ Acc(register) = 0
  /\ pc = last.pc + 1

\* The address the last command's operand denotes.
StoreTarget == AddressOf(last.reg, Operand)

\* C4: STORE k with k >= 1, and STORE *k where register k holds t >= 1,
\* writes the accumulator to the target (k, resp. t): the target then reads
\* as the accumulator, the accumulator and every other address read as
\* before, and the PC is PC + 1.
C4_StoreWritesTarget ==
  ( /\ Executed("STORE")
    /\ HasAddress(last.reg, Operand)
    /\ StoreTarget >= 1 )
  => /\ exc = "none"
     /\ ReadAt(register, StoreTarget) = Acc(last.reg)
     /\ \A a \in Touched(last.reg, register) :
          a # StoreTarget => ReadAt(register, a) = ReadAt(last.reg, a)
     /\ pc = last.pc + 1

C4_Witness ==
  /\ Executed("STORE")
  /\ Operand.mark = "*"
  /\ HasAddress(last.reg, Operand)
  /\ StoreTarget >= Len(last.reg)
  /\ Acc(last.reg) # 0
  /\ exc = "none"
  /\ ReadAt(register, StoreTarget) = Acc(last.reg)

\* C5: STORE #k fails for every k, and STORE whose target address is 0
\* (STORE 0, or STORE *k with register k holding 0) fails; neither writes a
\* register.
C5_StoreRejects ==
  /\ (Executed("STORE") /\ Operand.mark = "#")
     => (exc = "StoreConstant" /\ SameReads(last.reg, register))
  /\ ( /\ Executed("STORE")
       /\ HasAddress(last.reg, Operand)
       /\ StoreTarget = 0 )
     => (exc = "StoreAddressZero" /\ SameReads(last.reg, register))

C5_Witness ==
  /\ Executed("STORE")
  /\ Operand.mark = "*"
  /\ HasAddress(last.reg, Operand)
  /\ StoreTarget = 0
  /\ Acc(last.reg) # 0
  /\ Len(register) > Len(last.reg)
  /\ exc = "StoreAddressZero"

\* C6: GOTO *k and GOTO #k always fail; GOTO k sets the PC to exactly k
\* whatever the accumulator and the registers hold.
C6_Goto ==
  /\ (Executed("GOTO") /\ Operand.mark \in {"#", "*"})
     => exc = "GotoIllegalOperand"
  /\ (Executed("GOTO") /\ Operand.mark = "" /\ Operand.isnum)
     => (exc = "none" /\ pc = Operand.num)

C6_Witness ==
  /\ Executed("GOTO")
  /\ Operand = Oper("", 2)
  /\ Acc(last.reg) # 0
  /\ last.pc = 1
  /\ pc = 2
  /\ exc = "none"

\* C7: JZERO k sets the PC to k when the accumulator is 0 (an empty register
\* list included) and to PC + 1 when it is not; JZERO #k and JZERO *k fail
\* whatever the accumulator, and leave the PC as it was.
C7_Jzero ==
  /\ (Executed("JZERO") /\ Operand.mark = "" /\ Operand.isnum)
     => /\ exc = "none"
        /\ pc = IF Acc(last.reg) = 0 THEN Operand.num ELSE last.pc + 1
  /\ (Executed("JZERO") /\ Operand.mark \in {"#", "*"})
     => (exc = "JzeroIllegalOperand" /\ pc = last.pc)

C7_Witness ==
  /\ Executed("JZERO")
  /\ Operand = Oper("", 0)
  /\ last.reg = <<>>
  /\ pc = 0
  /\ exc = "none"

\* C8: DIV by an operand of value 0, in any addressing mode, fails with the
\* division-by-zero error, which faults the run, and leaves the accumulator
\* and the PC as they were.
C8_DivByZeroFaults ==
  ( /\ last.act = "cycle"
    /\ last.cmd[1] = "DIV"
    /\ Addressable(last.reg, Operand)
    /\ ValueOf(last.reg, Operand) = 0 )
  => /\ runState = "raised"
     /\ exc = "DivisionByZero"
     /\ Acc(register) = Acc(last.reg)
     /\ pc = last.pc

C8_Witness ==
  /\ last.act = "cycle"
  /\ last.cmd[1] = "DIV"
  /\ Operand.mark = "*"
  /\ Addressable(last.reg, Operand)
  /\ Acc(last.reg) # 0
  /\ ValueOf(last.reg, Operand) = 0
  /\ pc = last.pc
  /\ Acc(register) = Acc(last.reg)
  /\ runState = "raised"
  /\ exc = "DivisionByZero"

\* C9: from registers [0, 3, 6] and PC = 1 the example program reaches
\* Halted (PC = 0) without a fault, and the accumulator is then 18.
C9_ExampleHalts ==
  (prog = ExampleProg /\ last = NoCall /\ register = <<0, 3, 6>> /\ pc = 1)
  ~> ( /\ runState = "returned"
       /\ exc = "none"
       /\ pc = 0
       /\ Acc(register) = 18
       /\ result = <<18>> )

C9_Witness ==
  /\ prog = ExampleProg
  /\ runState = "returned"
  /\ pc = 0
  /\ register = <<18, 0, 6, 18>>
  /\ result = <<18>>

\* What the test has written to address k, and 0 when it never wrote there.
Expected(k) ==
  IF \E e \in written : e[1] = k
  THEN (CHOOSE e \in written : e[1] = k)[2]
  ELSE 0

\* C10: after any sequence of reads and writes at addresses >= 0, an address
\* never written reads 0, a written address reads the value last written to
\* it, and a write to k changes the value read at no other address.
C10_RegisterReads ==
  /\ exc = "none"
  /\ \A k \in 0 .. MaxNum + 1 :
       LET g == getAddress(register, k)
       IN  g.exc = "none" /\ g.val = Expected(k)
  /\ last.act = "get" => last.val = Expected(last.addr)
  /\ last.act = "set" =>
       /\ getAddress(register, last.addr).val = last.val
       /\ \A a \in Touched(last.reg, register) :
            a # last.addr => ReadAt(register, a) = ReadAt(last.reg, a)

C10_Witness ==
  /\ last.act = "get"
  /\ last.addr = 2
  /\ last.val # 0
  /\ written = {<<2, last.val>>}
  /\ Len(register) = 3
  /\ ReadAt(register, 1) = 0

\* Every value of a register list is 0 or more.
NonNegative(reg) == \A i \in 1 .. Len(reg) : reg[i] >= 0

\* C11: for every k >= 0 and every register store whose values are >= 0,
\* LOAD sets the accumulator to the operand's value: #k gives k, k the value
\* at register k, *k the value at the register whose address is the value at
\* register k; and it sets the PC to PC + 1.
C11_LoadByMode ==
  ( /\ Executed("LOAD")
    /\ Operand.isnum
    /\ Operand.num >= 0
    /\ NonNegative(last.reg) )
  => /\ exc = "none"
     /\ Acc(register) =
          (IF Operand.mark = "#" THEN Operand.num
           ELSE IF Operand.mark = "" THEN ReadAt(last.reg, Operand.num)
           ELSE ReadAt(last.reg, ReadAt(last.reg, Operand.num)))
     /\ pc = last.pc + 1

\* LOAD *1 on registers [a, 2, v] loads v.
C11_Witness ==
  /\ Executed("LOAD")
  /\ Operand = Oper("*", 1)
  /\ Len(last.reg) = 3
  /\ last.reg[2] = 2
  /\ last.reg[3] = 1
  /\ last.reg[1] = 0
  /\ Acc(register) = 1
  /\ pc = last.pc + 1

\* A program whose only instruction is END.
EndOnly == Len(prog) = 2 /\ prog[2][1] = "END"

\* C12: the machine starts Running with PC = 1; END sets the PC to 0
\* whatever its operand and changes no register; once the PC is 0 the machine
\* is Halted for good: no instruction is fetched or executed any more and no
\* register value and no PC changes.  A program whose only instruction is
\* END halts after one cycle with the accumulator at its initial value.
C12_EndHalts ==
  /\ [](last.act = "init" => (pc = 1 /\ runState = "running"))
  /\ []((last.act = "cycle" /\ last.cmd[1] = "END")
        => (pc = 0 /\ exc = "none" /\ runState = "running"
            /\ register = last.reg))
  /\ [][pc = 0 => /\ pc' = 0
                  /\ last'.act \notin {"cycle", "fetchfault"}
                  /\ runState' # "raised"
                  /\ SameReads(register, register')]_vars
  /\ []((EndOnly /\ last.act = "cycle")
        => (last.pc = 1 /\ pc = 0 /\ Acc(register) = Acc(last.reg)))
  /\ []((EndOnly /\ last.act = "finish")
        => (pc = 0 /\ runState = "returned" /\ result = <<Acc(last.reg)>>
            /\ Acc(register) = Acc(last.reg)))

C12_Witness ==
  /\ prog = <<ProgLine0, <<"END", Oper("*", 1)>> >>
  /\ last.act = "finish"
  /\ runState = "returned"
  /\ pc = 0
  /\ register = <<4, 1, 0>>
  /\ result = <<4>>

Abs(n) == IF n < 0 THEN -n ELSE n

\* The quotient of a by b rounded toward zero, and toward minus infinity.
TruncQuotient(a, b) ==
  IF (a < 0) = (b < 0) THEN Abs(a) \div Abs(b) ELSE -(Abs(a) \div Abs(b))

FloorQuotient(a, b) ==
  IF TruncQuotient(a, b) * b = a \/ (a < 0) = (b < 0)
  THEN TruncQuotient(a, b) ELSE TruncQuotient(a, b) - 1

\* DIV ran with an operand that names addresses of the store and whose
\* value is not 0.
DivCase ==
  /\ Executed("DIV")
  /\ Addressable(last.reg, Operand)
  /\ ValueOf(last.reg, Operand) # 0

\* C13 as stated: for every accumulator value a and every operand value v
\* other than 0, negative ones included, DIV leaves the quotient of a by v
\* truncated toward zero in the accumulator and sets PC to PC+1.
C13_DivTruncatesTowardZero ==
  DivCase
  => /\ exc = "none"
     /\ Acc(register) = TruncQuotient(Acc(last.reg), ValueOf(last.reg, Operand))
     /\ pc = last.pc + 1

\* C13 amended: for every accumulator value a and every operand value v
\* other than 0, DIV leaves the quotient of a by v rounded toward minus
\* infinity in the accumulator (the truncated quotient when a and v have
\* the same sign or v divides a, one less otherwise) and sets PC to PC+1.
C13_DivFloors ==
  DivCase
  => /\ exc = "none"
     /\ Acc(register) = FloorQuotient(Acc(last.reg), ValueOf(last.reg, Operand))
     /\ pc = last.pc + 1

C13_Witness ==
  /\ DivCase
  /\ Acc(last.reg) = -1
  /\ ValueOf(last.reg, Operand) = 2
  /\ Acc(register) = -1
  /\ pc = last.pc + 1

\* The errors of an operand form an instruction does not accept.
InvalidOperandErrors ==
  {"StoreConstant", "StoreAddressZero", "GotoIllegalOperand",
   "JzeroIllegalOperand"}

\* C14: an instruction that fails with an invalid-operand error (STORE #k,
\* STORE to address 0, GOTO or JZERO with # or *) leaves the PC and the
\* value read at every register address as they were before it started.
C14_InvalidOperandAllOrNothing ==
  (last.act = "execute" /\ exc \in InvalidOperandErrors)
  => /\ pc = last.pc
     /\ SameReads(last.reg, register)
     /\ \/ Executed("STORE") /\ exc \in {"StoreConstant", "StoreAddressZero"}
        \/ Executed("GOTO") /\ exc = "GotoIllegalOperand"
        \/ Executed("JZERO") /\ exc = "JzeroIllegalOperand"

C14_Witness ==
  /\ Executed("JZERO")
  /\ Operand = Oper("*", 1)
  /\ exc = "JzeroIllegalOperand"
  /\ last.pc = 2
  /\ pc = 2
  /\ Len(last.reg) = 3
  /\ Acc(last.reg) = 0
  /\ register = last.reg

\* C15: no read or write shortens the register list; one at an address k
\* at or beyond its length makes the length exactly k + 1, every new
\* address other than a written k holding 0; one at an address below the
\* length leaves the length unchanged.
C15_LengthGrows ==
  (last.act \in {"set", "get"})
  => /\ Len(register) >= Len(last.reg)
     /\ last.addr >= Len(last.reg)
        => /\ Len(register) = last.addr + 1
           /\ \A a \in Len(last.reg) .. last.addr :
                (last.act = "get" \/ a # last.addr) => register[a + 1] = 0
     /\ last.addr < Len(last.reg) => Len(register) = Len(last.reg)

C15_Witness ==
  /\ last.act = "set"
  /\ last.reg = <<>>
  /\ last.addr = 2
  /\ last.val # 0
  /\ register = <<0, 0, last.val>>

\* C16: a run reports a result only once it has halted with PC = 0, and
\* the result is the accumulator of that halted state; a run that ended
\* with an error reports no result.
C16_ResultOnlyWhenHalted ==
  /\ result # <<>>
     => /\ runState = "returned"
        /\ pc = 0
        /\ exc = "none"
        /\ last.act = "finish"
        /\ last.pc = 0
        /\ result = <<Acc(last.reg)>>
        /\ result = <<Acc(register)>>
  /\ runState = "returned" => result # <<>>
  /\ runState = "raised" => (result = <<>> /\ exc # "none")

C16_Witness ==
  /\ Len(prog) = 3
  /\ prog[2] = <<"LOAD", Oper("#", 1)>>
  /\ prog[3][1] = "END"
  /\ last.act = "finish"
  /\ Acc(last.reg) = 1
  /\ runState = "returned"
  /\ pc = 0
  /\ result = <<1>>

\* C17: for every accumulator value a and every operand of value v, in
\* each of the three addressing modes, ADD leaves a + v and MULT leaves
\* a * v in the accumulator, the exact integer with no bound or wrap-around,
\* and the PC at PC + 1.
C17_AddMultExact ==
  /\ (Executed("ADD") /\ Addressable(last.reg, Operand))
     => /\ exc = "none"
        /\ Acc(register) = Acc(last.reg) + ValueOf(last.reg, Operand)
        /\ pc = last.pc + 1
  /\ (Executed("MULT") /\ Addressable(last.reg, Operand))
     => /\ exc = "none"
        /\ Acc(register) = Acc(last.reg) * ValueOf(last.reg, Operand)
        /\ pc = last.pc + 1

C17_Witness ==
  /\ Executed("MULT")
  /\ Operand.mark = "*"
  /\ Addressable(last.reg, Operand)
  /\ Acc(last.reg) = MaxNum
  /\ ValueOf(last.reg, Operand) = MaxNum
  /\ Acc(register) = MaxNum * MaxNum
  /\ Acc(register) > MaxNum
  /\ pc = last.pc + 1

\* C18: every instruction other than STORE leaves the value read at every
\* address >= 1 unchanged: LOAD, ADD, SUB, MULT and DIV change at most
\* address 0 and the PC; GOTO, JZERO and END change at most the PC.
\* Decoding an operand may lengthen the list but changes no value read.
C18_OnlyStoreWritesRegisters ==
  (last.act = "execute" /\ last.cmd[1] # "STORE")
  => /\ \A a \in Touched(last.reg, register) :
          a >= 1 => ReadAt(register, a) = ReadAt(last.reg, a)
     /\ last.cmd[1] \in {"GOTO", "JZERO", "END"}
        => SameReads(last.reg, register)
     /\ Len(register) >= Len(last.reg)

C18_Witness ==
  /\ Executed("LOAD")
  /\ Operand.mark = "*"
  /\ exc = "none"
  /\ Len(register) > Len(last.reg)
  /\ Acc(register) # Acc(last.reg)
  /\ ReadAt(last.reg, 1) # 0
  /\ ReadAt(register, 1) = ReadAt(last.reg, 1)
  /\ pc = last.pc + 1

\* Every numeral in an operand of the program is 0 or more.
NonNegProg(p) ==
  \A i \in 2 .. Len(p) : p[i][2].isnum => p[i][2].num >= 0

\* The register addresses the last instruction read or wrote: the
\* accumulator's, the operand's numeral unless it is a constant, and for
\* an indirect operand the address found in that register.
AddressesUsed ==
  IF last.cmd[1] \in {"LOAD", "STORE", "ADD", "SUB", "MULT", "DIV"}
     /\ Operand.isnum
  THEN {0}
       \cup (IF Operand.mark = "#" THEN {} ELSE {Operand.num})
       \cup (IF Operand.mark = "*" /\ regindex(last.reg, Operand).exc = "none"
             THEN {regindex(last.reg, Operand).val} ELSE {})
  ELSE IF last.cmd[1] = "JZERO" THEN {0}
  ELSE {}

\* C19: when every initial register value and every numeral of the
\* program is 0 or more, every register value, the accumulator included,
\* stays 0 or more in every reachable state, and every register address an
\* instruction reads or writes is 0 or more.
C19_NonNegativeStays ==
  NonNegProg(prog)
  => /\ NonNegative(register)
     /\ last.act = "cycle"
        => /\ NonNegative(last.reg)
           /\ \A a \in AddressesUsed : a >= 0

C19_Witness ==
  /\ NonNegProg(prog)
  /\ last.act = "cycle"
  /\ last.cmd = <<"SUB", Oper("#", 1)>>
  /\ Acc(last.reg) = 0
  /\ Acc(register) = 0
  /\ NonNegative(register)
  /\ exc = "none"

====
